---- MODULE Spec2Model ----
(***************************************************************************)
(* Model of the expression-cleaning engine of goto-programs                *)
(* (src/goto-programs/goto_clean_expr.cpp): needs_cleaning,                *)
(* rewrite_boolean, clean_expr, clean_expr_address_of,                     *)
(* make_compound_literal and remove_gcc_conditional_expression.            *)
(*                                                                         *)
(* An expression (exprt) is a record                                       *)
(*   [id, stmt, ident, n, typ, ops]                                        *)
(* id    : the irep id (ID_and, ID_if, ID_side_effect, ...)                *)
(* stmt  : the statement of a side_effect_exprt, "" otherwise              *)
(* ident : identifier of a symbol / callee of a call / value of a constant *)
(* n     : index of a temporary in the symbol table, 0 for other nodes     *)
(* typ   : the type ("bool", "int", "void", "" for nil)                    *)
(* ops   : the operands, a sequence of expressions                         *)
(* Source locations and the language mode are not modelled.                *)
(***************************************************************************)
EXTENDS Integers, Sequences, FiniteSets, TLC

\* ------------------------------------------------------------------------
\* Expressions
\* ------------------------------------------------------------------------

mk(id, stmt, ident, n, typ, ops) ==
  [id |-> id, stmt |-> stmt, ident |-> ident, n |-> n, typ |-> typ, ops |-> ops]

nil_exprt == mk("nil", "", "", 0, "", <<>>)
true_exprt == mk("constant", "", "true", 0, "bool", <<>>)
false_exprt == mk("constant", "", "false", 0, "bool", <<>>)
symbol_exprt(ident, typ) == mk("symbol", "", ident, 0, typ, <<>>)
tmp_symbol_expr(suffix, n, typ) == mk("symbol", "", suffix, n, typ, <<>>)
\* if_exprt(cond, t, f): the type is that of the true case
if_exprt(c, t, f) == mk("if", "", "", 0, t.typ, <<c, t, f>>)
\* if_exprt{cond, t, f, type}
if_exprt_typed(c, t, f, typ) == mk("if", "", "", 0, typ, <<c, t, f>>)
typecast_exprt(op, typ) == mk("typecast", "", "", 0, typ, <<op>>)
not_exprt(op) == mk("not", "", "", 0, "bool", <<op>>)
and_exprt(ops) == mk("and", "", "", 0, "bool", ops)
or_exprt(ops) == mk("or", "", "", 0, "bool", ops)
implies_exprt(a, b) == mk("implies", "", "", 0, "bool", <<a, b>>)
comma_exprt(ops) == mk("comma", "", "", 0, ops[Len(ops)].typ, ops)
plus_exprt(a, b) == mk("+", "", "", 0, a.typ, <<a, b>>)
index_exprt(a, i) == mk("index", "", "", 0, "int", <<a, i>>)
dereference_exprt(p) == mk("dereference", "", "", 0, "int", <<p>>)
address_of_exprt(o) == mk("address_of", "", "", 0, "ptr", <<o>>)
compound_literal_exprt(op) == mk("compound_literal", "", "", 0, op.typ, <<op>>)
string_constantt == mk("string_constant", "", "str", 0, "array", <<>>)
forall_exprt(body) == mk("forall", "", "", 0, "bool", <<body>>)
exists_exprt(body) == mk("exists", "", "", 0, "bool", <<body>>)
\* side_effect_exprt: a call (the operands are the arguments), an assignment,
\* the GCC conditional a ?: b, a statement expression
side_effect_expr_function_callt(f, typ, args) ==
  mk("side_effect", "function_call", f, 0, typ, args)
side_effect_expr_assignt(lhs, rhs) ==
  mk("side_effect", "assign", "", 0, lhs.typ, <<lhs, rhs>>)
gcc_conditional_expression(a, b) ==
  mk("side_effect", "gcc_conditional_expression", "", 0, a.typ, <<a, b>>)
statement_expression(ident, typ) ==
  mk("side_effect", "statement_expression", ident, 0, typ, <<>>)

is_nil(e) == e.id = "nil"
is_not_nil(e) == e.id # "nil"
is_boolean(e) == e.typ = "bool"

\* ------------------------------------------------------------------------
\* needs_cleaning
\* ------------------------------------------------------------------------

RECURSIVE needs_cleaning_all(_)
\* faulty variant of needs_cleaning: descends into quantifiers
needs_cleaning_all(expr) ==
  IF expr.id \in {"side_effect", "compound_literal", "comma"}
  THEN TRUE
  ELSE \E i \in 1..Len(expr.ops) : needs_cleaning_all(expr.ops[i])

RECURSIVE needs_cleaning(_)
needs_cleaning(expr) ==
  IF expr.id \in {"side_effect", "compound_literal", "comma"}
  THEN TRUE
  ELSE IF expr.id \in {"forall", "exists"}
  THEN FALSE
  ELSE \E i \in 1..Len(expr.ops) : needs_cleaning(expr.ops[i])

RECURSIVE has_subexpr(_, _)
has_subexpr(expr, id) ==
  \/ expr.id = id
  \/ \E i \in 1..Len(expr.ops) : has_subexpr(expr.ops[i], id)

\* ------------------------------------------------------------------------
\* rewrite_boolean: result [e |-> rewritten expression, fatal |-> message]
\* ------------------------------------------------------------------------

RECURSIVE rewrite_chain_swapped(_, _, _)
\* faulty variant of rewrite_chain: the branches of the conditional built
\* for an operand of && are swapped
rewrite_chain_swapped(expr, i, tmp) ==
  IF i = 0
  THEN [e |-> tmp, fatal |-> ""]
  ELSE IF ~is_boolean(expr.ops[i])
  THEN [e |-> expr,
        fatal |-> "boolean operators must have only boolean operands"]
  ELSE IF expr.id = "and"
  THEN rewrite_chain_swapped(expr, i - 1,
                             if_exprt(expr.ops[i], false_exprt, tmp))
  ELSE rewrite_chain_swapped(expr, i - 1,
                             if_exprt(expr.ops[i], true_exprt, tmp))

RECURSIVE rewrite_chain(_, _, _)
\* the loop of rewrite_boolean over the operands, last one first:
\* i is the operand visited, tmp the tree built so far
rewrite_chain(expr, i, tmp) ==
  IF i = 0
  THEN [e |-> tmp, fatal |-> ""]
  ELSE IF ~is_boolean(expr.ops[i])
  THEN [e |-> expr,
        fatal |-> "boolean operators must have only boolean operands"]
  ELSE IF expr.id = "and"
  THEN rewrite_chain(expr, i - 1, if_exprt(expr.ops[i], tmp, false_exprt))
  ELSE rewrite_chain(expr, i - 1, if_exprt(expr.ops[i], true_exprt, tmp))

\* faulty variant of rewrite_boolean: a ==> b becomes a ? b : false
rewrite_boolean_implies_false(expr) ==
  IF expr.id \notin {"and", "or", "implies"}
  THEN [e |-> expr, fatal |-> "precondition: and, or or implies"]
  ELSE IF ~is_boolean(expr)
  THEN [e |-> expr, fatal |-> "must be Boolean"]
  ELSE IF expr.id = "implies"
  THEN [e |-> if_exprt_typed(expr.ops[1], expr.ops[2], false_exprt, "bool"),
        fatal |-> ""]
  ELSE rewrite_chain(expr, Len(expr.ops),
                     IF expr.id = "and" THEN true_exprt ELSE false_exprt)

\* faulty variant of rewrite_boolean: the node is returned as it is
rewrite_boolean_unchanged(expr) == [e |-> expr, fatal |-> ""]

rewrite_boolean(expr) ==
  IF expr.id \notin {"and", "or", "implies"}
  THEN [e |-> expr, fatal |-> "precondition: and, or or implies"]
  ELSE IF ~is_boolean(expr)
  THEN [e |-> expr, fatal |-> "must be Boolean"]
  ELSE IF expr.id = "implies"
  THEN [e |-> if_exprt_typed(expr.ops[1], expr.ops[2], true_exprt, "bool"),
        fatal |-> ""]
  ELSE rewrite_chain(expr, Len(expr.ops),
                     IF expr.id = "and" THEN true_exprt ELSE false_exprt)

\* ------------------------------------------------------------------------
\* The converter state threaded through the lowering (goto_convertt and the
\* goto_programt being written):
\*   dest     : the instruction sequence written to
\*   tab      : symbol_table, the temporaries allocated so far
\*   scope    : targets.scope_stack, the registered scope-exit instructions
\*   lifetime : goto_convertt::lifetime
\*   fatal    : "" or the message of the contract violation that aborted
\* An instruction is [op, a, b, off]: DECL a; DEAD a; ASSIGN a := b;
\* FUNCTION_CALL a := b (a nil: result dropped); OTHER a (expression
\* statement); GOTO off IF a (off relative to the GOTO); LOCATION (join).
\* A lowering returns [e |-> the residual expression, s |-> the state].
\* ------------------------------------------------------------------------

instr(op, a, b, off) == [op |-> op, a |-> a, b |-> b, off |-> off]
make_decl(sym) == instr("DECL", sym, nil_exprt, 0)
make_dead(sym) == instr("DEAD", sym, nil_exprt, 0)
make_assignment(lhs, rhs) == instr("ASSIGN", lhs, rhs, 0)
make_function_call(lhs, call) == instr("FUNCTION_CALL", lhs, call, 0)
make_other(e) == instr("OTHER", e, nil_exprt, 0)
make_goto(guard, off) == instr("GOTO", guard, nil_exprt, off)
make_location == instr("LOCATION", nil_exprt, nil_exprt, 0)

ret(e, s) == [e |-> e, s |-> s]
abort(s, msg) == IF s.fatal = "" THEN [s EXCEPT !.fatal = msg] ELSE s
add(s, i) == IF s.fatal = "" THEN [s EXCEPT !.dest = Append(@, i)] ELSE s

\* get_fresh_aux_symbol: a new entry of the symbol table, named by its index
get_fresh_aux_symbol(s, typ, suffix, static, value) ==
  [s EXCEPT !.tab = Append(@, [suffix |-> suffix, typ |-> typ,
                                static |-> static, value |-> value])]

\* new_tmp_symbol: a fresh block-scoped temporary, declared in dest, with its
\* scope-exit marker registered
new_tmp_symbol(s, typ, suffix) ==
  LET s1 == get_fresh_aux_symbol(s, typ, suffix, FALSE, nil_exprt)
      sym == tmp_symbol_expr(suffix, Len(s1.tab), typ)
  IN  ret(sym, [add(s1, make_decl(sym)) EXCEPT !.scope = Append(@, make_dead(sym))])

is_function_call(e) == e.id = "side_effect" /\ e.stmt = "function_call"

RECURSIVE skip_typecast(_)
skip_typecast(e) == IF e.id = "typecast" THEN skip_typecast(e.ops[1]) ELSE e

\* typecast_exprt::conditional_cast
conditional_cast(e, typ) == IF e.typ = typ THEN e ELSE typecast_exprt(e, typ)

assignment_lhs_needs_temporary(lhs) == lhs.id # "symbol"

\* the declaration's default for the parameter result_is_used of clean_expr
default_result_is_used == TRUE

\* generate_ifthenelse: a branch over the true fragment guarded by the
\* negated condition, the true fragment, a jump over the false fragment, the
\* false fragment, the join
generate_ifthenelse(cond, tmp_true, tmp_false, s) ==
  IF s.fatal # "" THEN s
  ELSE [s EXCEPT !.dest =
          @ \o <<make_goto(not_exprt(cond), Len(tmp_true) + 2)>>
            \o tmp_true
            \o <<make_goto(true_exprt, Len(tmp_false) + 1)>>
            \o tmp_false
            \o <<make_location>>]

\* remove_function_call: the call becomes an instruction; its value, when
\* used, is held by a fresh temporary
remove_function_call(expr, s, result_is_used) ==
  IF result_is_used
  THEN LET t == new_tmp_symbol(s, expr.typ, "return_value")
       IN  ret(t.e, add(t.s, make_function_call(t.e, expr)))
  ELSE ret(nil_exprt, add(s, make_function_call(nil_exprt, expr)))

\* remove_statement_expression: the block becomes an instruction; its value,
\* when used, is held by a fresh temporary
remove_statement_expression(expr, s, result_is_used) ==
  IF result_is_used
  THEN LET t == new_tmp_symbol(s, expr.typ, "statement_expression")
       IN  ret(t.e, add(t.s, make_other(expr)))
  ELSE ret(nil_exprt, add(s, make_other(expr)))

\* remove_side_effect: the generic side-effect remover
remove_side_effect(expr, s, result_is_used, address_of) ==
  IF expr.stmt = "function_call"
  THEN remove_function_call(expr, s, result_is_used)
  ELSE IF expr.stmt = "assign"
  THEN ret(IF result_is_used THEN expr.ops[1] ELSE nil_exprt,
           add(s, make_assignment(expr.ops[1], expr.ops[2])))
  ELSE remove_statement_expression(expr, s, result_is_used)

\* ------------------------------------------------------------------------
\* clean_expr, clean_expr_address_of, make_compound_literal,
\* remove_gcc_conditional_expression
\* ------------------------------------------------------------------------

RECURSIVE clean_expr(_, _, _)
RECURSIVE clean_expr_address_of(_, _)

\* convert of a code_expressiont: the expression statement is lowered as
\* discarded and kept as an instruction when something is left of it
convert_expression(e, s) ==
  LET r == clean_expr(e, s, FALSE)
  IN  IF is_not_nil(r.e) THEN add(r.s, make_other(r.e)) ELSE r.s

\* convert of a code_assignt (convert_assign): a call on the right-hand side
\* becomes a call instruction writing the left-hand side, anything else is
\* lowered and assigned
convert_assign(lhs, rhs, s) ==
  LET l == clean_expr(lhs, s, default_result_is_used)
  IN  IF is_function_call(rhs)
      THEN add(l.s, make_function_call(l.e, rhs))
      ELSE LET r == clean_expr(rhs, l.s, default_result_is_used)
           IN  add(r.s, make_assignment(l.e, r.e))

\* faulty variant of make_compound_literal: the dead instruction is
\* registered whatever the lifetime
make_compound_literal_always_dead(expr, s) ==
  LET static == s.lifetime # "AUTOMATIC_LOCAL"
      s1 == get_fresh_aux_symbol(s, expr.typ, "literal", static, expr)
      result == tmp_symbol_expr("literal", Len(s1.tab), expr.typ)
      s2 == IF ~static THEN add(s1, make_decl(result)) ELSE s1
      s3 == convert_assign(result, expr, s2)
      s4 == IF s3.fatal = ""
            THEN [s3 EXCEPT !.scope = Append(@, make_dead(result))]
            ELSE s3
  IN  ret(result, s4)

make_compound_literal(expr, s) ==
  LET static == s.lifetime # "AUTOMATIC_LOCAL"
      s1 == get_fresh_aux_symbol(s, expr.typ, "literal", static, expr)
      result == tmp_symbol_expr("literal", Len(s1.tab), expr.typ)
      s2 == IF ~static THEN add(s1, make_decl(result)) ELSE s1
      s3 == convert_assign(result, expr, s2)
      s4 == IF ~static /\ s3.fatal = ""
            THEN [s3 EXCEPT !.scope = Append(@, make_dead(result))]
            ELSE s3
  IN  ret(result, s4)

\* faulty variant of clean_if_branches: the expression is not made nil
\* when the result is not used
clean_if_branches_keeps_expr(expr, if_expr, c, result_is_used) ==
  LET t == clean_expr(if_expr.ops[2], [c.s EXCEPT !.dest = <<>>],
                      result_is_used)
      f == clean_expr(if_expr.ops[3], [t.s EXCEPT !.dest = <<>>],
                      result_is_used)
      \* the state with dest again the caller's sequence
      s0 == [f.s EXCEPT !.dest = c.s.dest]
  IN  IF result_is_used
      THEN
        LET new_symbol == new_tmp_symbol(s0, expr.typ, "if_expr")
            st == convert_assign(new_symbol.e, t.e,
                    [new_symbol.s EXCEPT !.dest = t.s.dest])
            sf == convert_assign(new_symbol.e, f.e,
                    [st EXCEPT !.dest = f.s.dest])
        IN  ret(new_symbol.e,
                generate_ifthenelse(if_expr.ops[1], st.dest, sf.dest,
                  [sf EXCEPT !.dest = new_symbol.s.dest]))
      ELSE
        LET st == IF is_not_nil(t.e)
                  THEN convert_expression(typecast_exprt(t.e, "void"),
                         [s0 EXCEPT !.dest = t.s.dest])
                  ELSE [s0 EXCEPT !.dest = t.s.dest]
            sf == IF is_not_nil(f.e)
                  THEN convert_expression(typecast_exprt(f.e, "void"),
                         [st EXCEPT !.dest = f.s.dest])
                  ELSE [st EXCEPT !.dest = f.s.dest]
        IN  ret([if_expr EXCEPT !.ops = <<if_expr.ops[1], t.e, f.e>>],
                generate_ifthenelse(if_expr.ops[1], st.dest, sf.dest,
                  [sf EXCEPT !.dest = c.s.dest]))

\* faulty variant of clean_if_branches: the false branch is lowered into
\* the sequence of the true branch
clean_if_branches_shared(expr, if_expr, c, result_is_used) ==
  LET t == clean_expr(if_expr.ops[2], [c.s EXCEPT !.dest = <<>>],
                      result_is_used)
      f == clean_expr(if_expr.ops[3], [t.s EXCEPT !.dest = t.s.dest],
                      result_is_used)
      \* the state with dest again the caller's sequence
      s0 == [f.s EXCEPT !.dest = c.s.dest]
  IN  IF result_is_used
      THEN
        LET new_symbol == new_tmp_symbol(s0, expr.typ, "if_expr")
            st == convert_assign(new_symbol.e, t.e,
                    [new_symbol.s EXCEPT !.dest = t.s.dest])
            sf == convert_assign(new_symbol.e, f.e,
                    [st EXCEPT !.dest = f.s.dest])
        IN  ret(new_symbol.e,
                generate_ifthenelse(if_expr.ops[1], st.dest, sf.dest,
                  [sf EXCEPT !.dest = new_symbol.s.dest]))
      ELSE
        LET st == IF is_not_nil(t.e)
                  THEN convert_expression(typecast_exprt(t.e, "void"),
                         [s0 EXCEPT !.dest = t.s.dest])
                  ELSE [s0 EXCEPT !.dest = t.s.dest]
            sf == IF is_not_nil(f.e)
                  THEN convert_expression(typecast_exprt(f.e, "void"),
                         [st EXCEPT !.dest = f.s.dest])
                  ELSE [st EXCEPT !.dest = f.s.dest]
        IN  ret(nil_exprt,
                generate_ifthenelse(if_expr.ops[1], st.dest, sf.dest,
                  [sf EXCEPT !.dest = c.s.dest]))

\* faulty variant of clean_if_branches: the false fragment does not assign
\* the temporary
clean_if_branches_false_unassigned(expr, if_expr, c, result_is_used) ==
  LET t == clean_expr(if_expr.ops[2], [c.s EXCEPT !.dest = <<>>],
                      result_is_used)
      f == clean_expr(if_expr.ops[3], [t.s EXCEPT !.dest = <<>>],
                      result_is_used)
      \* the state with dest again the caller's sequence
      s0 == [f.s EXCEPT !.dest = c.s.dest]
  IN  IF result_is_used
      THEN
        LET new_symbol == new_tmp_symbol(s0, expr.typ, "if_expr")
            st == convert_assign(new_symbol.e, t.e,
                    [new_symbol.s EXCEPT !.dest = t.s.dest])
            sf == [st EXCEPT !.dest = f.s.dest]
        IN  ret(new_symbol.e,
                generate_ifthenelse(if_expr.ops[1], st.dest, sf.dest,
                  [sf EXCEPT !.dest = new_symbol.s.dest]))
      ELSE
        LET st == IF is_not_nil(t.e)
                  THEN convert_expression(typecast_exprt(t.e, "void"),
                         [s0 EXCEPT !.dest = t.s.dest])
                  ELSE [s0 EXCEPT !.dest = t.s.dest]
            sf == IF is_not_nil(f.e)
                  THEN convert_expression(typecast_exprt(f.e, "void"),
                         [st EXCEPT !.dest = f.s.dest])
                  ELSE [st EXCEPT !.dest = f.s.dest]
        IN  ret(nil_exprt,
                generate_ifthenelse(if_expr.ops[1], st.dest, sf.dest,
                  [sf EXCEPT !.dest = c.s.dest]))

\* faulty variant of clean_if_branches: the instructions lowering the true
\* branch are written before the guarded branch
clean_if_branches_hoists_true(expr, if_expr, c, result_is_used) ==
  LET t == clean_expr(if_expr.ops[2], [c.s EXCEPT !.dest = <<>>],
                      result_is_used)
      f == clean_expr(if_expr.ops[3], [t.s EXCEPT !.dest = <<>>],
                      result_is_used)
      \* the state with dest again the caller's sequence
      s0 == [f.s EXCEPT !.dest = c.s.dest]
  IN  IF result_is_used
      THEN
        LET new_symbol == new_tmp_symbol(s0, expr.typ, "if_expr")
            st == convert_assign(new_symbol.e, t.e,
                    [new_symbol.s EXCEPT !.dest = <<>>])
            sf == convert_assign(new_symbol.e, f.e,
                    [st EXCEPT !.dest = f.s.dest])
        IN  ret(new_symbol.e,
                generate_ifthenelse(if_expr.ops[1], st.dest, sf.dest,
                  [sf EXCEPT !.dest = new_symbol.s.dest \o t.s.dest]))
      ELSE
        LET st == IF is_not_nil(t.e)
                  THEN convert_expression(typecast_exprt(t.e, "void"),
                         [s0 EXCEPT !.dest = <<>>])
                  ELSE [s0 EXCEPT !.dest = <<>>]
            sf == IF is_not_nil(f.e)
                  THEN convert_expression(typecast_exprt(f.e, "void"),
                         [st EXCEPT !.dest = f.s.dest])
                  ELSE [st EXCEPT !.dest = f.s.dest]
        IN  ret(nil_exprt,
                generate_ifthenelse(if_expr.ops[1], st.dest, sf.dest,
                  [sf EXCEPT !.dest = c.s.dest \o t.s.dest]))

\* faulty variant of clean_if_branches: the branch construct replaces what
\* dest held
clean_if_branches_drops_dest(expr, if_expr, c, result_is_used) ==
  LET t == clean_expr(if_expr.ops[2], [c.s EXCEPT !.dest = <<>>],
                      result_is_used)
      f == clean_expr(if_expr.ops[3], [t.s EXCEPT !.dest = <<>>],
                      result_is_used)
      \* the state with dest again the caller's sequence
      s0 == [f.s EXCEPT !.dest = c.s.dest]
  IN  IF result_is_used
      THEN
        LET new_symbol == new_tmp_symbol(s0, expr.typ, "if_expr")
            st == convert_assign(new_symbol.e, t.e,
                    [new_symbol.s EXCEPT !.dest = t.s.dest])
            sf == convert_assign(new_symbol.e, f.e,
                    [st EXCEPT !.dest = f.s.dest])
        IN  ret(new_symbol.e,
                generate_ifthenelse(if_expr.ops[1], st.dest, sf.dest,
                  [sf EXCEPT !.dest = <<make_decl(new_symbol.e)>>]))
      ELSE
        LET st == IF is_not_nil(t.e)
                  THEN convert_expression(typecast_exprt(t.e, "void"),
                         [s0 EXCEPT !.dest = t.s.dest])
                  ELSE [s0 EXCEPT !.dest = t.s.dest]
            sf == IF is_not_nil(f.e)
                  THEN convert_expression(typecast_exprt(f.e, "void"),
                         [st EXCEPT !.dest = f.s.dest])
                  ELSE [st EXCEPT !.dest = f.s.dest]
        IN  ret(nil_exprt,
                generate_ifthenelse(if_expr.ops[1], st.dest, sf.dest,
                  [sf EXCEPT !.dest = <<>>]))

\* the conditional case of clean_expr once a branch needs cleaning: expr is
\* the conditional, if_expr its copy with the condition lowered, c the
\* lowering of the condition
clean_if_branches(expr, if_expr, c, result_is_used) ==
  LET t == clean_expr(if_expr.ops[2], [c.s EXCEPT !.dest = <<>>],
                      result_is_used)
      f == clean_expr(if_expr.ops[3], [t.s EXCEPT !.dest = <<>>],
                      result_is_used)
      \* the state with dest again the caller's sequence
      s0 == [f.s EXCEPT !.dest = c.s.dest]
  IN  IF result_is_used
      THEN
        LET new_symbol == new_tmp_symbol(s0, expr.typ, "if_expr")
            st == convert_assign(new_symbol.e, t.e,
                    [new_symbol.s EXCEPT !.dest = t.s.dest])
            sf == convert_assign(new_symbol.e, f.e,
                    [st EXCEPT !.dest = f.s.dest])
        IN  ret(new_symbol.e,
                generate_ifthenelse(if_expr.ops[1], st.dest, sf.dest,
                  [sf EXCEPT !.dest = new_symbol.s.dest]))
      ELSE
        LET st == IF is_not_nil(t.e)
                  THEN convert_expression(typecast_exprt(t.e, "void"),
                         [s0 EXCEPT !.dest = t.s.dest])
                  ELSE [s0 EXCEPT !.dest = t.s.dest]
            sf == IF is_not_nil(f.e)
                  THEN convert_expression(typecast_exprt(f.e, "void"),
                         [st EXCEPT !.dest = f.s.dest])
                  ELSE [st EXCEPT !.dest = f.s.dest]
        IN  ret(nil_exprt,
                generate_ifthenelse(if_expr.ops[1], st.dest, sf.dest,
                  [sf EXCEPT !.dest = c.s.dest]))

\* the conditional case of clean_expr
clean_if(expr, s, result_is_used) ==
  LET c == clean_expr(expr.ops[1], s, TRUE)
      if_expr == [expr EXCEPT !.ops[1] = c.e]
  IN  IF c.s.fatal # "" THEN ret(if_expr, c.s)
      ELSE IF ~needs_cleaning(if_expr.ops[2]) /\ ~needs_cleaning(if_expr.ops[3])
      THEN ret(if_expr, c.s)
      ELSE IF ~is_boolean(if_expr.ops[1])
      THEN ret(if_expr, abort(c.s, "condition for an 'if' must be boolean"))
      ELSE clean_if_branches(expr, if_expr, c, result_is_used)

RECURSIVE clean_comma_ops(_, _, _, _)
\* the loop over the operands of a comma, from operand i on: every operand
\* but the last (and the last too when keep_last is false) is lowered as
\* discarded and kept as an expression statement; returns the last operand,
\* not yet lowered, when keep_last
clean_comma_ops(ops, i, s, keep_last) ==
  IF i > Len(ops) THEN ret(nil_exprt, s)
  ELSE IF keep_last /\ i = Len(ops) THEN ret(ops[i], s)
  ELSE LET r == clean_expr(ops[i], s, FALSE)
           s1 == IF is_not_nil(r.e) THEN convert_expression(r.e, r.s) ELSE r.s
       IN  clean_comma_ops(ops, i + 1, s1, keep_last)

\* faulty variant of the comma case: the last operand is lowered as
\* discarded even when the result is used
clean_comma_discards_last(expr, s, result_is_used) ==
  ret(nil_exprt, clean_comma_ops(expr.ops, 1, s, FALSE).s)

\* faulty variant of the comma case: the last operand is returned as it is,
\* not lowered
clean_comma_last_unlowered(expr, s, result_is_used) ==
  IF result_is_used
  THEN clean_comma_ops(expr.ops, 1, s, TRUE)
  ELSE ret(nil_exprt, clean_comma_ops(expr.ops, 1, s, FALSE).s)

\* the comma case of clean_expr
clean_comma(expr, s, result_is_used) ==
  IF result_is_used
  THEN LET r == clean_comma_ops(expr.ops, 1, s, TRUE)
       IN  clean_expr(r.e, r.s, TRUE)
  ELSE ret(nil_exprt, clean_comma_ops(expr.ops, 1, s, FALSE).s)

\* the typecast case of clean_expr
clean_typecast(expr, s, result_is_used) ==
  LET r == clean_expr(expr.ops[1], s, result_is_used)
  IN  IF is_nil(r.e) THEN ret(nil_exprt, r.s)
      ELSE ret([expr EXCEPT !.ops[1] = r.e], r.s)

\* faulty variant of clean_assign_call: the residual is the left-hand side
\* even when the call was directed into a temporary
clean_assign_call_returns_lhs(expr, s, result_is_used) ==
  LET l == clean_expr(expr.ops[1], s, default_result_is_used)
      lhs == l.e
      must_use_rhs == assignment_lhs_needs_temporary(lhs)
      c == IF must_use_rhs
           THEN remove_function_call(expr.ops[2], l.s, TRUE)
           ELSE ret(expr.ops[2], l.s)
      new_lhs == skip_typecast(lhs)
      new_rhs == conditional_cast(c.e, new_lhs.typ)
      s1 == convert_assign(new_lhs, new_rhs, c.s)
  IN  IF result_is_used
      THEN ret(lhs, s1)
      ELSE ret(nil_exprt, s1)

\* the case of clean_expr for x = f(...)
clean_assign_call(expr, s, result_is_used) ==
  LET l == clean_expr(expr.ops[1], s, default_result_is_used)
      lhs == l.e
      must_use_rhs == assignment_lhs_needs_temporary(lhs)
      c == IF must_use_rhs
           THEN remove_function_call(expr.ops[2], l.s, TRUE)
           ELSE ret(expr.ops[2], l.s)
      new_lhs == skip_typecast(lhs)
      new_rhs == conditional_cast(c.e, new_lhs.typ)
      s1 == convert_assign(new_lhs, new_rhs, c.s)
  IN  IF result_is_used
      THEN ret(IF must_use_rhs THEN new_rhs ELSE lhs, s1)
      ELSE ret(nil_exprt, s1)

\* faulty variant of remove_gcc_conditional_expression: the conditional is
\* built from a itself, not from its lowered residual
remove_gcc_conditional_expression_copies_a(expr, s) ==
  IF Len(expr.ops) # 2
  THEN ret(expr, abort(s, "binary expression must have two operands"))
  ELSE LET if_expr == if_exprt_typed(conditional_cast(expr.ops[1], "bool"),
                                     expr.ops[1], expr.ops[2], expr.typ)
       IN  clean_expr(if_expr, s, default_result_is_used)

remove_gcc_conditional_expression(expr, s) ==
  IF Len(expr.ops) # 2
  THEN ret(expr, abort(s, "binary expression must have two operands"))
  ELSE LET a == clean_expr(expr.ops[1], s, default_result_is_used)
           if_expr == if_exprt_typed(conditional_cast(a.e, "bool"), a.e,
                                     expr.ops[2], expr.typ)
       IN  clean_expr(if_expr, a.s, default_result_is_used)

RECURSIVE clean_operands_discarded(_, _, _)
\* faulty variant of clean_operands: the operands are lowered as discarded
clean_operands_discarded(expr, i, s) ==
  IF i > Len(expr.ops) THEN ret(expr, s)
  ELSE LET r == clean_expr(expr.ops[i], s, FALSE)
       IN  clean_operands_discarded([expr EXCEPT !.ops[i] = r.e], i + 1, r.s)

RECURSIVE clean_operands(_, _, _)
\* Forall_operands(it, expr) clean_expr(*it, dest, mode): operand i onwards
clean_operands(expr, i, s) ==
  IF i > Len(expr.ops) THEN ret(expr, s)
  ELSE LET r == clean_expr(expr.ops[i], s, default_result_is_used)
       IN  clean_operands([expr EXCEPT !.ops[i] = r.e], i + 1, r.s)

\* faulty variant of clean_default: a compound literal is materialised in a
\* temporary, as under address-of
clean_default_materialises(expr, s, result_is_used) ==
  LET r == clean_operands(expr, 1, s)
  IN  IF r.s.fatal # "" THEN r
      ELSE IF r.e.id = "side_effect"
      THEN remove_side_effect(r.e, r.s, result_is_used, FALSE)
      ELSE IF r.e.id = "compound_literal"
      THEN IF Len(r.e.ops) # 1
           THEN ret(r.e, abort(r.s, "ID_compound_literal has a single operand"))
           ELSE make_compound_literal(r.e.ops[1], r.s)
      ELSE r

\* the default case of clean_expr
clean_default(expr, s, result_is_used) ==
  LET r == clean_operands(expr, 1, s)
  IN  IF r.s.fatal # "" THEN r
      ELSE IF r.e.id = "side_effect"
      THEN remove_side_effect(r.e, r.s, result_is_used, FALSE)
      ELSE IF r.e.id = "compound_literal"
      THEN IF Len(r.e.ops) # 1
           THEN ret(r.e, abort(r.s, "ID_compound_literal has a single operand"))
           ELSE ret(r.e.ops[1], r.s)
      ELSE r

\* clean_expr after the test of needs_cleaning: the dispatch on the kind
clean_dispatch(expr, s, result_is_used) ==
  IF expr.id \in {"and", "or", "implies"}
  THEN LET b == rewrite_boolean(expr)
       IN  IF b.fatal # "" THEN ret(expr, abort(s, b.fatal))
           ELSE clean_expr(b.e, s, result_is_used)
  ELSE IF expr.id = "if" THEN clean_if(expr, s, result_is_used)
  ELSE IF expr.id = "comma" THEN clean_comma(expr, s, result_is_used)
  ELSE IF expr.id = "typecast" THEN clean_typecast(expr, s, result_is_used)
  ELSE IF expr.id = "side_effect" /\ expr.stmt = "gcc_conditional_expression"
  THEN remove_gcc_conditional_expression(expr, s)
  ELSE IF expr.id = "side_effect" /\ expr.stmt = "statement_expression"
  THEN remove_statement_expression(expr, s, result_is_used)
  ELSE IF expr.id = "side_effect" /\ expr.stmt = "assign" /\ Len(expr.ops) # 2
  THEN ret(expr, abort(s,
         "side-effect assignment expressions must have two operands"))
  ELSE IF expr.id = "side_effect" /\ expr.stmt = "assign"
          /\ is_function_call(expr.ops[2])
  THEN clean_assign_call(expr, s, result_is_used)
  ELSE IF expr.id \in {"forall", "exists"} /\ has_subexpr(expr, "side_effect")
  THEN ret(expr, abort(s,
    "the front-end should check quantified expressions for side-effects"))
  ELSE IF expr.id = "address_of"
  THEN LET r == clean_expr_address_of(expr.ops[1], s)
       IN  ret([expr EXCEPT !.ops[1] = r.e], r.s)
  ELSE clean_default(expr, s, result_is_used)

\* faulty variant of clean_expr: the test of needs_cleaning is missing
clean_expr_unguarded(expr, s, result_is_used) ==
  IF s.fatal # "" THEN ret(expr, s)
  ELSE clean_dispatch(expr, s, result_is_used)

clean_expr(expr, s, result_is_used) ==
  IF s.fatal # "" THEN ret(expr, s)
  ELSE IF ~needs_cleaning(expr) THEN ret(expr, s)
  ELSE clean_dispatch(expr, s, result_is_used)

RECURSIVE clean_address_of_operands(_, _, _)
\* Forall_operands(it, expr) clean_expr_address_of(*it, dest, mode)
clean_address_of_operands(expr, i, s) ==
  IF i > Len(expr.ops) THEN ret(expr, s)
  ELSE LET r == clean_expr_address_of(expr.ops[i], s)
       IN  clean_address_of_operands([expr EXCEPT !.ops[i] = r.e], i + 1, r.s)

\* faulty variant of clean_expr_address_of: the compound literal is replaced
\* by its operand, as in value context, and no temporary is made
clean_expr_address_of_strips_literal(expr, s) ==
  IF s.fatal # "" THEN ret(expr, s)
  ELSE IF expr.id = "compound_literal"
  THEN IF Len(expr.ops) # 1
       THEN ret(expr, abort(s, "ID_compound_literal has a single operand"))
       ELSE clean_expr(expr.ops[1], s, default_result_is_used)
  ELSE IF expr.id = "string_constant" THEN ret(expr, s)
  ELSE IF expr.id = "index"
  THEN LET a == clean_expr_address_of(expr.ops[1], s)
           i == clean_expr(expr.ops[2], a.s, default_result_is_used)
       IN  ret([expr EXCEPT !.ops = <<a.e, i.e>>], i.s)
  ELSE IF expr.id = "dereference"
  THEN LET r == clean_expr(expr.ops[1], s, default_result_is_used)
       IN  ret([expr EXCEPT !.ops[1] = r.e], r.s)
  ELSE IF expr.id = "comma"
  THEN LET r == clean_comma_ops(expr.ops, 1, s, TRUE)
       IN  clean_expr_address_of(r.e, r.s)
  ELSE IF expr.id = "side_effect"
  THEN remove_side_effect(expr, s, TRUE, TRUE)
  ELSE clean_address_of_operands(expr, 1, s)

\* faulty variant of clean_expr_address_of: a leaf that matches no case is a
\* fatal violation
clean_expr_address_of_rejects_leaf(expr, s) ==
  IF s.fatal # "" THEN ret(expr, s)
  ELSE IF expr.id = "compound_literal"
  THEN IF Len(expr.ops) # 1
       THEN ret(expr, abort(s, "ID_compound_literal has a single operand"))
       ELSE LET r == clean_expr(expr.ops[1], s, default_result_is_used)
            IN  make_compound_literal(r.e, r.s)
  ELSE IF expr.id = "string_constant" THEN ret(expr, s)
  ELSE IF expr.id = "index"
  THEN LET a == clean_expr_address_of(expr.ops[1], s)
           i == clean_expr(expr.ops[2], a.s, default_result_is_used)
       IN  ret([expr EXCEPT !.ops = <<a.e, i.e>>], i.s)
  ELSE IF expr.id = "dereference"
  THEN LET r == clean_expr(expr.ops[1], s, default_result_is_used)
       IN  ret([expr EXCEPT !.ops[1] = r.e], r.s)
  ELSE IF expr.id = "comma"
  THEN LET r == clean_comma_ops(expr.ops, 1, s, TRUE)
       IN  clean_expr_address_of(r.e, r.s)
  ELSE IF expr.id = "side_effect"
  THEN remove_side_effect(expr, s, TRUE, TRUE)
  ELSE IF Len(expr.ops) = 0
  THEN ret(expr, abort(s, "address-of on a node that is not addressable"))
  ELSE clean_address_of_operands(expr, 1, s)

clean_expr_address_of(expr, s) ==
  IF s.fatal # "" THEN ret(expr, s)
  ELSE IF expr.id = "compound_literal"
  THEN IF Len(expr.ops) # 1
       THEN ret(expr, abort(s, "ID_compound_literal has a single operand"))
       ELSE LET r == clean_expr(expr.ops[1], s, default_result_is_used)
            IN  make_compound_literal(r.e, r.s)
  ELSE IF expr.id = "string_constant" THEN ret(expr, s)
  ELSE IF expr.id = "index"
  THEN LET a == clean_expr_address_of(expr.ops[1], s)
           i == clean_expr(expr.ops[2], a.s, default_result_is_used)
       IN  ret([expr EXCEPT !.ops = <<a.e, i.e>>], i.s)
  ELSE IF expr.id = "dereference"
  THEN LET r == clean_expr(expr.ops[1], s, default_result_is_used)
       IN  ret([expr EXCEPT !.ops[1] = r.e], r.s)
  ELSE IF expr.id = "comma"
  THEN LET r == clean_comma_ops(expr.ops, 1, s, TRUE)
       IN  clean_expr_address_of(r.e, r.s)
  ELSE IF expr.id = "side_effect"
  THEN remove_side_effect(expr, s, TRUE, TRUE)
  ELSE clean_address_of_operands(expr, 1, s)

\* ------------------------------------------------------------------------
\* The expressions lowered
\* ------------------------------------------------------------------------

\* longest and/or/comma operand list built over the atoms
MaxChain == 3

A == symbol_exprt("a", "bool")
X == symbol_exprt("x", "int")
F == side_effect_expr_function_callt("f", "bool", <<>>)
G == side_effect_expr_function_callt("g", "bool", <<>>)
Atoms == {A, X, F, G}

Tuples(S, k) == [1..k -> S]
ChainOps == UNION {Tuples(Atoms, k) : k \in 2..MaxChain}
Chains == {and_exprt(ops) : ops \in ChainOps}
            \cup {or_exprt(ops) : ops \in ChainOps}
            \cup {comma_exprt(ops) : ops \in ChainOps}

\* the forms whose address is taken
AddrForms(S) ==
  {compound_literal_exprt(p) : p \in S}
    \cup {string_constantt}
    \cup {index_exprt(X, p) : p \in S}
    \cup {index_exprt(compound_literal_exprt(X), p) : p \in S}
    \cup {dereference_exprt(p) : p \in S}
    \cup {comma_exprt(<<p, X>>) : p \in S}
    \cup {comma_exprt(<<p, true_exprt>>) : p \in S}
    \cup {if_exprt(p, dereference_exprt(F), dereference_exprt(G)) : p \in S}
    \cup S

Level1 ==
  Atoms \cup Chains
    \cup {implies_exprt(p, q) : p, q \in Atoms}
    \cup {if_exprt(c, p, q) : c, p, q \in Atoms}
    \cup {gcc_conditional_expression(p, q) : p, q \in Atoms}
    \cup {side_effect_expr_assignt(X, q) : q \in Atoms}
    \cup {side_effect_expr_assignt(index_exprt(X, p), q) : p, q \in Atoms}
    \cup {plus_exprt(p, q) : p, q \in Atoms}
    \cup {typecast_exprt(p, "int") : p \in Atoms}
    \cup {compound_literal_exprt(p) : p \in Atoms}
    \cup {forall_exprt(p) : p \in Atoms}
    \cup {exists_exprt(p) : p \in Atoms}
    \cup {statement_expression("s", "int")}

\* the operands of the nested expressions
Mid ==
  {A, F,
   if_exprt(A, F, G), if_exprt(F, A, A), comma_exprt(<<F, A>>),
   and_exprt(<<A, F>>), or_exprt(<<F, G>>),
   forall_exprt(F), forall_exprt(compound_literal_exprt(A)),
   gcc_conditional_expression(F, G),
   typecast_exprt(F, "bool"), side_effect_expr_assignt(A, G),
   compound_literal_exprt(F)}

Level2 ==
  {and_exprt(<<p, q>>) : p, q \in Mid}
    \cup {or_exprt(<<p, q>>) : p, q \in Mid}
    \cup {comma_exprt(<<p, q>>) : p, q \in Mid}
    \cup {implies_exprt(p, q) : p, q \in Mid}
    \cup {gcc_conditional_expression(p, q) : p, q \in Mid}
    \cup {plus_exprt(p, q) : p, q \in Mid}
    \cup {if_exprt(c, p, q) : c \in {A, F, and_exprt(<<A, F>>)}, p, q \in Mid}
    \cup {typecast_exprt(p, "int") : p \in Mid}
    \cup {address_of_exprt(o) : o \in AddrForms(Mid \cup Atoms)}

Exprs == Level1 \cup Level2

RECURSIVE Names(_)
\* the symbols read and the functions called by an expression
Names(e) ==
  (IF e.id = "symbol" \/ is_function_call(e) THEN {e.ident} ELSE {})
    \cup UNION {Names(e.ops[i]) : i \in 1..Len(e.ops)}

\* ------------------------------------------------------------------------
\* State: one expression is lowered, then the instructions written are run
\* ------------------------------------------------------------------------

VARIABLES
  phase,           \* "input", "lowered", "aborted", "running", "done"
  expr,            \* the expression given to clean_expr
  result_is_used,  \* the usage context given to clean_expr
  residual,        \* expr after clean_expr
  conv,            \* the converter state (dest, tab, scope, lifetime, fatal)
  env,             \* the value of every symbol and the result of every call
  store,           \* running: the value of every symbol written or read
  pc,              \* running: index in conv.dest of the next instruction
  path,            \* running: the indexes of the instructions executed
  guards,          \* running: <<pc, value of the condition>> per branch taken
  effects          \* running: the functions called, in order

vars == <<phase, expr, result_is_used, residual, conv, env, store, pc, path,
          guards, effects>>

Lifetimes == {"AUTOMATIC_LOCAL", "STATIC_GLOBAL"}

conv0(lifetime) ==
  [dest |-> <<>>, tab |-> <<>>, scope |-> <<>>, lifetime |-> lifetime,
   fatal |-> ""]

Init ==
  /\ phase = "input"
  /\ expr \in Exprs
  /\ result_is_used \in BOOLEAN
  /\ residual = nil_exprt
  /\ conv \in {conv0(l) : l \in Lifetimes}
  /\ env = <<>>
  /\ store = <<>>
  /\ pc = 0
  /\ path = <<>>
  /\ guards = {}
  /\ effects = <<>>

\* clean_expr(expr, dest, mode, result_is_used)
Lower ==
  /\ phase = "input"
  /\ LET r == clean_expr(expr, conv, result_is_used)
     IN  /\ conv' = r.s
         /\ residual' = r.e
         /\ phase' = IF r.s.fatal = "" THEN "lowered" ELSE "aborted"
  /\ UNCHANGED <<expr, result_is_used, env, store, pc, path, guards, effects>>

\* ------------------------------------------------------------------------
\* Running the instructions written: values are 0 and 1
\* ------------------------------------------------------------------------

Key(sym) == <<sym.ident, sym.n>>

RECURSIVE eval(_, _)
\* the value of a side-effect-free expression
eval(e, st) ==
  IF e.id = "symbol" THEN (IF Key(e) \in DOMAIN st THEN st[Key(e)] ELSE 0)
  ELSE IF e.id = "constant" THEN (IF e.ident = "true" THEN 1 ELSE 0)
  ELSE IF e.id = "typecast"
  THEN (IF e.typ = "bool"
        THEN (IF eval(e.ops[1], st) # 0 THEN 1 ELSE 0)
        ELSE eval(e.ops[1], st))
  ELSE IF e.id = "not" THEN (IF eval(e.ops[1], st) # 0 THEN 0 ELSE 1)
  ELSE IF e.id = "if"
  THEN (IF eval(e.ops[1], st) # 0 THEN eval(e.ops[2], st)
        ELSE eval(e.ops[3], st))
  ELSE IF e.id = "and"
  THEN (IF \A i \in 1..Len(e.ops) : eval(e.ops[i], st) # 0 THEN 1 ELSE 0)
  ELSE IF e.id = "or"
  THEN (IF \E i \in 1..Len(e.ops) : eval(e.ops[i], st) # 0 THEN 1 ELSE 0)
  ELSE IF e.id = "implies"
  THEN (IF eval(e.ops[1], st) # 0 /\ eval(e.ops[2], st) = 0 THEN 0 ELSE 1)
  ELSE IF e.id = "+"
  THEN (eval(e.ops[1], st) + eval(e.ops[2], st)) % 2
  ELSE 0

write(st, lhs, v) ==
  IF lhs.id = "symbol"
  THEN [k \in DOMAIN st \cup {Key(lhs)} |-> IF k = Key(lhs) THEN v ELSE st[k]]
  ELSE st

\* the values of the symbols and calls of the expression are chosen
Begin ==
  /\ phase = "lowered"
  /\ env' \in [Names(expr) -> 0..1]
  /\ store' = [k \in {<<n, 0>> : n \in Names(expr)} |-> env'[k[1]]]
  /\ pc' = 1
  /\ phase' = "running"
  /\ UNCHANGED <<expr, result_is_used, residual, conv, path, guards, effects>>

Running(op) ==
  /\ phase = "running"
  /\ pc <= Len(conv.dest)
  /\ conv.dest[pc].op = op
  /\ path' = Append(path, pc)
  /\ UNCHANGED <<phase, expr, result_is_used, residual, conv, env>>

ExecDecl ==
  /\ Running("DECL")
  /\ pc' = pc + 1
  /\ UNCHANGED <<store, guards, effects>>

ExecAssign ==
  /\ Running("ASSIGN")
  /\ store' = write(store, conv.dest[pc].a, eval(conv.dest[pc].b, store))
  /\ pc' = pc + 1
  /\ UNCHANGED <<guards, effects>>

ExecFunctionCall ==
  /\ Running("FUNCTION_CALL")
  /\ effects' = Append(effects, conv.dest[pc].b.ident)
  /\ store' = write(store, conv.dest[pc].a, env[conv.dest[pc].b.ident])
  /\ pc' = pc + 1
  /\ UNCHANGED guards

ExecOther ==
  /\ Running("OTHER")
  /\ effects' = IF conv.dest[pc].a.id = "side_effect"
                THEN Append(effects, conv.dest[pc].a.ident)
                ELSE effects
  /\ pc' = pc + 1
  /\ UNCHANGED <<store, guards>>

ExecGoto ==
  /\ Running("GOTO")
  /\ LET v == eval(conv.dest[pc].a, store)
     IN  /\ pc' = IF v # 0 THEN pc + conv.dest[pc].off ELSE pc + 1
         /\ guards' = guards \cup {<<pc, v>>}
  /\ UNCHANGED <<store, effects>>

ExecLocation ==
  /\ Running("LOCATION")
  /\ pc' = pc + 1
  /\ UNCHANGED <<store, guards, effects>>

Finish ==
  /\ phase = "running"
  /\ pc > Len(conv.dest)
  /\ phase' = "done"
  /\ UNCHANGED <<expr, result_is_used, residual, conv, env, store, pc, path,
                 guards, effects>>

Next ==
  \/ Lower
  \/ Begin
  \/ ExecDecl
  \/ ExecAssign
  \/ ExecFunctionCall
  \/ ExecOther
  \/ ExecGoto
  \/ ExecLocation
  \/ Finish

Spec == Init /\ [][Next]_vars

TypeOK ==
  /\ phase \in {"input", "lowered", "aborted", "running", "done"}
  /\ result_is_used \in BOOLEAN
  /\ pc \in 0..(Len(conv.dest) + 1)

\* ------------------------------------------------------------------------
\* Properties
\* ------------------------------------------------------------------------

RECURSIVE Subs(_)
\* every subexpression, the expression itself included
Subs(e) == {e} \cup UNION {Subs(e.ops[i]) : i \in 1..Len(e.ops)}

RECURSIVE Reach(_)
\* the subexpressions reached without passing through a forall/exists node
Reach(e) ==
  {e} \cup (IF e.id \in {"forall", "exists"} THEN {}
            ELSE UNION {Reach(e.ops[i]) : i \in 1..Len(e.ops)})

DirtyKinds == {"side_effect", "compound_literal", "comma"}
Lowered == phase \in {"lowered", "running", "done"}

\* C2: needs_cleaning(e) is true iff e or a subexpression reached from e
\* without passing through a forall/exists node is a side effect, a compound
\* literal or a comma; it is false for every forall/exists node. Checked for
\* the expression lowered and each of its subexpressions.
C2_NeedsCleaningIffReachableDirty ==
  \A e \in Subs(expr) :
    /\ needs_cleaning(e) <=> (\E r \in Reach(e) : r.id \in DirtyKinds)
    /\ e.id \in {"forall", "exists"} => ~needs_cleaning(e)

\* a quantifier whose body holds a side effect is classified
C2_Witness ==
  /\ expr.id \in {"forall", "exists"}
  /\ has_subexpr(expr.ops[1], "side_effect")
  /\ ~needs_cleaning(expr)

Pure(e) == \A r \in Subs(e) : r.id \notin DirtyKinds

\* C3: clean_expr on an expression without side-effect, comma and
\* compound-literal nodes changes nothing: the expression is the same tree
\* (and/or/implies are not desugared), no instruction is written, no
\* temporary is allocated, whatever result_is_used.
C3_CleanExprNoOpOnPure ==
  (phase # "input" /\ Pure(expr)) =>
    /\ phase # "aborted"
    /\ residual = expr
    /\ conv = conv0(conv.lifetime)

\* a pure boolean chain has been through clean_expr
C3_Witness ==
  /\ phase = "lowered"
  /\ Pure(expr)
  /\ expr.id \in {"and", "or", "implies"}
  /\ ~result_is_used

\* C8: make_compound_literal marks the temporary static iff the lifetime is
\* not AUTOMATIC_LOCAL; a block-scoped temporary has one DECL, written before
\* the assignment that initialises it, and exactly one DEAD on the scope
\* stack; a static temporary has neither.
C8_CompoundLiteralLifetime ==
  Lowered =>
    \A i \in 1..Len(conv.tab) :
      conv.tab[i].suffix = "literal" =>
        LET sym == tmp_symbol_expr("literal", i, conv.tab[i].typ)
            decls == {j \in 1..Len(conv.dest) : conv.dest[j] = make_decl(sym)}
            inits == {j \in 1..Len(conv.dest) :
                        /\ conv.dest[j].op \in {"ASSIGN", "FUNCTION_CALL"}
                        /\ conv.dest[j].a = sym}
            deads == {j \in 1..Len(conv.scope) : conv.scope[j] = make_dead(sym)}
        IN  /\ conv.tab[i].static <=> conv.lifetime # "AUTOMATIC_LOCAL"
            /\ Cardinality(inits) = 1
            /\ IF ~conv.tab[i].static
               THEN /\ Cardinality(decls) = 1
                    /\ \A d \in decls : \A a \in inits : d < a
                    /\ Cardinality(deads) = 1
               ELSE decls = {} /\ deads = {}

\* a block-scoped compound literal has been materialised
C8_Witness ==
  /\ phase = "lowered"
  /\ conv.lifetime = "AUTOMATIC_LOCAL"
  /\ \E i \in 1..Len(conv.tab) :
       conv.tab[i].suffix = "literal" /\ ~conv.tab[i].static

\* the lowering of a ? b : true, from the state the implication was lowered in
C9_AsConditional ==
  clean_expr(if_exprt_typed(expr.ops[1], expr.ops[2], true_exprt, "bool"),
             conv0(conv.lifetime), result_is_used)

C9_Case ==
  /\ Lowered
  /\ expr.id = "implies"
  /\ is_boolean(expr.ops[1])
  /\ is_boolean(expr.ops[2])

\* C9 as stated: a ==> b and a ? b : true are lowered to the same
\* instructions and the same residual expression, for all boolean a and b.
C9_Original ==
  C9_Case => /\ conv.dest = C9_AsConditional.s.dest
             /\ residual = C9_AsConditional.e

\* C9 amended: a ==> b and a ? b : true are lowered to the same instructions
\* (and temporaries and scope-exit markers); the residual expressions are the
\* same when the implication needs cleaning, and otherwise each expression
\* is left as it is, the implication an implication.
C9_ImpliesEquivalence ==
  C9_Case => /\ conv = C9_AsConditional.s
             /\ needs_cleaning(expr) => residual = C9_AsConditional.e
             /\ ~needs_cleaning(expr) =>
                  residual = expr /\ C9_AsConditional.e.id = "if"

\* an implication whose right-hand side has a side effect has been lowered
C9_Witness ==
  /\ C9_Case
  /\ needs_cleaning(expr.ops[2])
  /\ Len(conv.dest) > 0

RECURSIVE C10_InOrder(_, _, _)
\* operand i onwards of a comma whose result is used: every operand but the
\* last lowered as discarded, its instructions followed by one expression
\* statement when its residual is not nil; the last lowered as used
C10_InOrder(ops, i, s) ==
  IF i = Len(ops) THEN clean_expr(ops[i], s, TRUE)
  ELSE LET r == clean_expr(ops[i], s, FALSE)
       IN  C10_InOrder(ops, i + 1,
             IF is_not_nil(r.e) THEN add(r.s, make_other(r.e)) ELSE r.s)

\* C10: for a comma whose result is used, clean_expr lowers e1..e(n-1) as
\* discarded from left to right, writing for each its instructions and then,
\* when its residual is not nil, one expression statement; en is lowered
\* last, as used, and its residual is the residual of the comma.
C10_CommaUsed ==
  (Lowered /\ expr.id = "comma" /\ result_is_used) =>
    /\ conv = C10_InOrder(expr.ops, 1, conv0(conv.lifetime)).s
    /\ residual = C10_InOrder(expr.ops, 1, conv0(conv.lifetime)).e

\* a comma of three operands, the first with a side effect, the second
\* kept as an expression statement, has been lowered as used
C10_Witness ==
  /\ phase = "lowered"
  /\ expr.id = "comma"
  /\ result_is_used
  /\ Len(expr.ops) = 3
  /\ needs_cleaning(expr.ops[1])
  /\ \E j \in 1..Len(conv.dest) : conv.dest[j] = make_other(expr.ops[2])
  /\ is_not_nil(residual)

Conditional(e) == e.id \in {"if", "and", "or", "implies"}

\* a branch of the conditional, or of the conditional the chain is
\* rewritten to, needs cleaning
C4_BranchNeedsCleaning(e) ==
  LET d == IF e.id = "if" THEN e ELSE rewrite_boolean(e).e
  IN  needs_cleaning(d.ops[2]) \/ needs_cleaning(d.ops[3])

C4_Case == Lowered /\ ~result_is_used /\ needs_cleaning(expr)

\* C4 as stated: after clean_expr with result_is_used = false on an
\* expression that needs cleaning, the residual expression is nil, whatever
\* the kind of the expression.
C4_Original == C4_Case => is_nil(residual)

\* C4 amended: after clean_expr with result_is_used = false on an expression
\* that needs cleaning, the residual is nil for a comma, for a conditional
\* (or and/or/implies chain) a branch of which needs cleaning and for an
\* assignment of a call; for a conditional or chain of which only the
\* condition needed cleaning it is the conditional with its branches as
\* they were, and for an ordinary operator of the default case it is the
\* operator: neither is nil.
C4_DiscardedResidual ==
  C4_Case =>
    /\ expr.id = "comma" => is_nil(residual)
    /\ (Conditional(expr) /\ C4_BranchNeedsCleaning(expr)) => is_nil(residual)
    /\ (expr.id = "side_effect" /\ expr.stmt = "assign"
          /\ is_function_call(expr.ops[2])) => is_nil(residual)
    /\ (Conditional(expr) /\ ~C4_BranchNeedsCleaning(expr)) =>
         /\ residual.id = "if"
         /\ expr.id = "if" =>
              residual.ops[2] = expr.ops[2] /\ residual.ops[3] = expr.ops[3]
    /\ expr.id = "+" =>
         residual.id = "+" /\ Len(residual.ops) = Len(expr.ops)

\* a conditional of which only the condition needed cleaning has been
\* lowered as discarded, and one with a branch to clean as well
C4_Witness ==
  /\ C4_Case
  /\ expr.id = "if"
  /\ ~C4_BranchNeedsCleaning(expr)
  /\ residual.id = "if"
  /\ Len(conv.dest) > 0

\* the temporary with index i holds the value of the top-level node: it is
\* an if_expr temporary, assigned at the end of the last fragment written
\* and standing for the expression
C5_TopLevelTemporary(i) ==
  /\ conv.tab[i].suffix = "if_expr"
  /\ residual = tmp_symbol_expr("if_expr", i, conv.tab[i].typ)
  /\ Len(conv.dest) >= 2
  /\ conv.dest[Len(conv.dest)] = make_location
  /\ conv.dest[Len(conv.dest) - 1].op = "ASSIGN"
  /\ conv.dest[Len(conv.dest) - 1].a
       = tmp_symbol_expr("if_expr", i, conv.tab[i].typ)

C5_TopLevelKind ==
  \/ Conditional(expr)
  \/ expr.id = "side_effect" /\ expr.stmt = "gcc_conditional_expression"

\* C5: clean_expr with result_is_used = false allocates no if_expr temporary
\* for the value of the top-level node, be it a conditional, an
\* and/or/implies chain or the GCC conditional a ?: b.
C5_NoTopLevelTemporary ==
  (Lowered /\ ~result_is_used /\ C5_TopLevelKind) =>
    \A i \in 1..Len(conv.tab) : ~C5_TopLevelTemporary(i)

RECURSIVE Mask(_)
\* the expression with the body of every quantifier taken out
Mask(e) ==
  IF e.id \in {"forall", "exists"} THEN [e EXCEPT !.ops = <<>>]
  ELSE [e EXCEPT !.ops = [i \in 1..Len(e.ops) |-> Mask(e.ops[i])]]

MaskInstruction(i) == [i EXCEPT !.a = Mask(i.a), !.b = Mask(i.b)]

Quantifiers(e) == {q \in Subs(e) : q.id \in {"forall", "exists"}}

\* C7: for an expression that contains a forall/exists node, clean_expr and
\* clean_expr_address_of write no instruction, allocate no temporary and
\* rewrite no node derived from the body of the quantifier: the lowering is
\* that of the expression with the bodies taken out, and every quantifier
\* written is a quantifier of the expression, unchanged.
C7_QuantifierNonInterference ==
  (Lowered /\ Quantifiers(expr) # {}) =>
    LET r == clean_expr(Mask(expr), conv0(conv.lifetime), result_is_used)
    IN  /\ r.s.fatal = ""
        /\ r.s.dest = [j \in 1..Len(conv.dest) |-> MaskInstruction(conv.dest[j])]
        /\ r.e = Mask(residual)
        /\ Len(r.s.tab) = Len(conv.tab)
        /\ Quantifiers(residual) \subseteq Quantifiers(expr)
        /\ \A j \in 1..Len(conv.dest) :
             Quantifiers(conv.dest[j].a) \cup Quantifiers(conv.dest[j].b)
               \subseteq Quantifiers(expr)

\* ------------------------------------------------------------------------
\* The source semantics of an expression: its value, the functions it calls
\* in order, the values of the symbols afterwards
\* ------------------------------------------------------------------------

sem(v, fx, st) == [v |-> v, fx |-> fx, st |-> st]

RECURSIVE Sem(_, _, _)
RECURSIVE SemAnd(_, _, _, _)
RECURSIVE SemOr(_, _, _, _)
RECURSIVE SemAll(_, _, _, _)

\* a1 && ... && an from operand i on: ai is evaluated iff a1..a(i-1) are true
SemAnd(ops, i, st, en) ==
  IF i > Len(ops) THEN sem(1, <<>>, st)
  ELSE LET r == Sem(ops[i], st, en)
       IN  IF r.v = 0 THEN sem(0, r.fx, r.st)
           ELSE LET q == SemAnd(ops, i + 1, r.st, en)
                IN  sem(q.v, r.fx \o q.fx, q.st)

\* a1 || ... || an from operand i on: ai is evaluated iff a1..a(i-1) are false
SemOr(ops, i, st, en) ==
  IF i > Len(ops) THEN sem(0, <<>>, st)
  ELSE LET r == Sem(ops[i], st, en)
       IN  IF r.v # 0 THEN sem(1, r.fx, r.st)
           ELSE LET q == SemOr(ops, i + 1, r.st, en)
                IN  sem(q.v, r.fx \o q.fx, q.st)

\* every operand from operand i on, left to right; the value is the last one
SemAll(ops, i, st, en) ==
  IF i > Len(ops) THEN sem(0, <<>>, st)
  ELSE LET r == Sem(ops[i], st, en)
       IN  IF i = Len(ops) THEN r
           ELSE LET q == SemAll(ops, i + 1, r.st, en)
                IN  sem(q.v, r.fx \o q.fx, q.st)

Sem(e, st, en) ==
  IF e.id \in {"forall", "exists"} THEN sem(0, <<>>, st)
  ELSE IF ~needs_cleaning(e) THEN sem(eval(e, st), <<>>, st)
  ELSE IF e.id = "and" THEN SemAnd(e.ops, 1, st, en)
  ELSE IF e.id = "or" THEN SemOr(e.ops, 1, st, en)
  ELSE IF e.id = "implies"
  THEN LET a == Sem(e.ops[1], st, en)
       IN  IF a.v = 0 THEN sem(1, a.fx, a.st)
           ELSE LET b == Sem(e.ops[2], a.st, en)
                IN  sem(IF b.v # 0 THEN 1 ELSE 0, a.fx \o b.fx, b.st)
  ELSE IF e.id = "if"
  THEN LET c == Sem(e.ops[1], st, en)
           b == Sem(IF c.v # 0 THEN e.ops[2] ELSE e.ops[3], c.st, en)
       IN  sem(b.v, c.fx \o b.fx, b.st)
  ELSE IF e.id = "side_effect" /\ e.stmt = "gcc_conditional_expression"
  THEN LET a == Sem(e.ops[1], st, en)
       IN  IF a.v # 0 THEN a
           ELSE LET b == Sem(e.ops[2], a.st, en)
                IN  sem(b.v, a.fx \o b.fx, b.st)
  ELSE IF e.id = "side_effect" /\ e.stmt = "function_call"
  THEN LET a == SemAll(e.ops, 1, st, en)
       IN  sem(en[e.ident], a.fx \o <<e.ident>>, a.st)
  ELSE IF e.id = "side_effect" /\ e.stmt = "assign"
  THEN LET r == Sem(e.ops[2], st, en)
       IN  sem(r.v, r.fx, write(r.st, e.ops[1], r.v))
  ELSE IF e.id = "side_effect"
  THEN sem(0, <<e.ident>>, st)
  ELSE IF e.id = "typecast"
  THEN LET r == Sem(e.ops[1], st, en)
       IN  sem(IF e.typ = "bool" /\ r.v # 0 THEN 1 ELSE r.v, r.fx, r.st)
  ELSE SemAll(e.ops, 1, st, en)

\* the values of the symbols before the run
store0 == [k \in {<<n, 0>> : n \in Names(expr)} |-> env[k[1]]]

C1_Case ==
  /\ phase = "done"
  /\ needs_cleaning(expr)
  /\ \/ expr.id \in {"and", "or"} /\ Len(expr.ops) >= 2
     \/ expr.id = "side_effect" /\ expr.stmt = "gcc_conditional_expression"

\* C1: for a1 && ... && an, n >= 2, that needs cleaning, the instructions
\* written perform the side effects of ai only on the runs where a1..a(i-1)
\* are all true, in left-to-right order; dually for ||; for a ?: b those of b
\* only when a is false. The calls made by the run are those of the
\* short-circuit evaluation of the expression, in its order.
C1_ShortCircuitPreserved ==
  C1_Case => effects = Sem(expr, store0, env).fx

\* a run of f() && g() && ... in which f() is false: g is not called
C1_Witness ==
  /\ C1_Case
  /\ expr.id = "and"
  /\ Len(expr.ops) = 3
  /\ expr.ops[1] = F
  /\ expr.ops[2] = G
  /\ env["f"] = 0
  /\ effects = <<"f">>

\* the branch constructs written by generate_ifthenelse: a GOTO guarded by a
\* negated condition at p, the true fragment, the jump over the false
\* fragment, the false fragment, the join
Branches == {p \in 1..Len(conv.dest) :
               conv.dest[p].op = "GOTO" /\ conv.dest[p].a.id = "not"}
Jump(p) == p + conv.dest[p].off - 1
TrueFragment(p) == (p + 1)..(Jump(p) - 1)
FalseFragment(p) == (Jump(p) + 1)..(Jump(p) + conv.dest[Jump(p)].off - 1)
Join(p) == Jump(p) + conv.dest[Jump(p)].off

\* the temporaries declared, and those referred to, by instructions
Declared(range) ==
  {conv.dest[j].a : j \in {k \in range : conv.dest[k].op = "DECL"}}
Referenced(range) ==
  UNION {{q \in Subs(conv.dest[j].a) \cup Subs(conv.dest[j].b) :
            q.id = "symbol" /\ q.n > 0} : j \in range}

Executed == {path[j] : j \in 1..Len(path)}

\* C6: the true and the false fragment of every lowered conditional are
\* independent: no temporary declared in one is declared or referred to in
\* the other; and every run of the branch construct executes exactly one of
\* the two fragments, the true one iff the lowered condition holds (guards
\* holds the value the negated condition had when the branch was run).
C6_BranchIsolation ==
  Lowered =>
    \A p \in Branches :
      /\ Declared(TrueFragment(p)) \cap Referenced(FalseFragment(p)) = {}
      /\ Declared(FalseFragment(p)) \cap Referenced(TrueFragment(p)) = {}
      /\ phase = "done" =>
           IF p \notin Executed
           THEN (TrueFragment(p) \cup FalseFragment(p)) \cap Executed = {}
           ELSE IF <<p, 0>> \in guards
           THEN /\ FalseFragment(p) \cap Executed = {}
                /\ {p + 1, Jump(p), Join(p)} \subseteq Executed
           ELSE /\ <<p, 1>> \in guards
                /\ (TrueFragment(p) \cup {Jump(p)}) \cap Executed = {}
                /\ {Jump(p) + 1, Join(p)} \subseteq Executed

\* a run took the true fragment of a conditional both fragments of which
\* declare a temporary
C6_Witness ==
  /\ phase = "done"
  /\ \E p \in Branches :
       /\ Declared(TrueFragment(p)) # {}
       /\ Declared(FalseFragment(p)) # {}
       /\ p \in Executed
       /\ <<p, 0>> \in guards
       /\ p + 1 \in Executed

\* ------------------------------------------------------------------------
\* The address of a compound literal
\* ------------------------------------------------------------------------

\* the expression lowered is &(compound literal)
C11_Case ==
  /\ Lowered
  /\ expr.id = "address_of"
  /\ expr.ops[1].id = "compound_literal"

\* the lowering of the operand of the literal, in value context
C11_Operand == clean_expr(expr.ops[1].ops[1], conv0(conv.lifetime), TRUE)

\* the instructions written after those of the operand
C11_Tail == SubSeq(conv.dest, Len(C11_Operand.s.dest) + 1, Len(conv.dest))

\* C11: lowering &(compound literal) lowers the operand of the literal in
\* value context, then allocates exactly one fresh temporary of the type of
\* the literal, writes its declaration (only when the temporary is
\* block-scoped) followed by the assignment of the lowered operand to it, and
\* rewrites the expression into the address of the symbol of that temporary:
\* the address-of node is kept.
C11_AddressOfCompoundLiteral ==
  C11_Case =>
    LET n == Len(conv.tab)
        literal == tmp_symbol_expr("literal", n, expr.ops[1].typ)
    IN  /\ SubSeq(conv.dest, 1, Len(C11_Operand.s.dest)) = C11_Operand.s.dest
        /\ n = Len(C11_Operand.s.tab) + 1
        /\ SubSeq(conv.tab, 1, n - 1) = C11_Operand.s.tab
        /\ conv.tab[n].suffix = "literal"
        /\ conv.tab[n].typ = expr.ops[1].typ
        /\ C11_Tail =
             (IF conv.lifetime = "AUTOMATIC_LOCAL"
              THEN <<make_decl(literal)>> ELSE <<>>)
               \o <<make_assignment(literal, C11_Operand.e)>>
        /\ residual = [expr EXCEPT !.ops = <<literal>>]
        /\ residual.id = "address_of"

\* &(compound literal of f()) in a block: the value of the call is held by
\* one temporary, the literal by the next, which is declared, then assigned
C11_Witness ==
  /\ C11_Case
  /\ expr.ops[1].ops[1] = F
  /\ conv.lifetime = "AUTOMATIC_LOCAL"
  /\ Len(conv.tab) = 2
  /\ Len(conv.dest) = 4
  /\ conv.dest[3].op = "DECL"
  /\ conv.dest[4].op = "ASSIGN"
  /\ residual = address_of_exprt(tmp_symbol_expr("literal", 2, "bool"))

\* ------------------------------------------------------------------------
\* The shape of the desugared chain
\* ------------------------------------------------------------------------

\* C12: rewrite_boolean rewrites a two-operand a && b into exactly
\* a ? b : false and a two-operand a || b into exactly a ? true : b: the last
\* operand is not wrapped in a conditional of its own.
C12_LastOperandNotWrapped ==
  (/\ expr.id \in {"and", "or"}
   /\ Len(expr.ops) = 2
   /\ \A i \in 1..2 : is_boolean(expr.ops[i]))
    => rewrite_boolean(expr).e =
         IF expr.id = "and"
         THEN if_exprt(expr.ops[1], expr.ops[2], false_exprt)
         ELSE if_exprt(expr.ops[1], true_exprt, expr.ops[2])

\* ------------------------------------------------------------------------
\* Quantifiers with side effects
\* ------------------------------------------------------------------------

\* C14: clean_expr applied to a forall/exists node whose body contains a
\* side effect does not return normally: the lowering ends in the fatal
\* violation "the front-end should check quantified expressions for
\* side-effects".
C14_QuantifierSideEffectFatal ==
  (/\ phase # "input"
   /\ expr.id \in {"forall", "exists"}
   /\ has_subexpr(expr.ops[1], "side_effect"))
    => /\ phase = "aborted"
       /\ conv.fatal =
            "the front-end should check quantified expressions for side-effects"

\* ------------------------------------------------------------------------
\* Operands of the boolean operators that are not boolean
\* ------------------------------------------------------------------------

\* C17: rewrite_boolean applied to an and, or or implies node one of whose
\* operands is not boolean never returns a rewritten tree: it ends in a fatal
\* violation, for each of the three kinds; so does the lowering of such a
\* node that needs cleaning.
C17_NonBooleanOperandFatal ==
  (/\ expr.id \in {"and", "or", "implies"}
   /\ \E i \in 1..Len(expr.ops) : ~is_boolean(expr.ops[i]))
    => /\ rewrite_boolean(expr).fatal # ""
       /\ (phase # "input" /\ needs_cleaning(expr)) => phase = "aborted"

\* ------------------------------------------------------------------------
\* a ?: b evaluates a once
\* ------------------------------------------------------------------------

\* the expression lowered is a ?: b
C13_Case ==
  /\ Lowered
  /\ expr.id = "side_effect"
  /\ expr.stmt = "gcc_conditional_expression"

\* the lowering of a alone, and that of b alone after it
C13_A == clean_expr(expr.ops[1], conv0(conv.lifetime), TRUE)
C13_B == clean_expr(expr.ops[2], [C13_A.s EXCEPT !.dest = <<>>], TRUE)

\* the number of call instructions of a sequence
CallCount(dest) ==
  Cardinality({j \in 1..Len(dest) : dest[j].op = "FUNCTION_CALL"})

\* C13: lowering a ?: b evaluates a once: the instructions of the side
\* effects of a are written exactly once, before the guarded branch, and the
\* condition and the true branch of the resulting conditional are both the
\* lowered, side-effect-free residual of a. The calls written are those of
\* a, once, and those of b; a run makes the calls of the short-circuit
\* evaluation.
C13_ElvisEvaluatesOnce ==
  C13_Case =>
    LET na == Len(C13_A.s.dest)
        cond == conditional_cast(C13_A.e, "bool")
    IN  /\ ~needs_cleaning(C13_A.e)
        /\ SubSeq(conv.dest, 1, na) = C13_A.s.dest
        /\ CallCount(conv.dest) = CallCount(C13_A.s.dest)
                                    + CallCount(C13_B.s.dest)
        /\ IF needs_cleaning(expr.ops[2])
           THEN \* DECL of the temporary, then the branch on the residual
                /\ na + 2 \in Branches
                /\ conv.dest[na + 2].a = not_exprt(cond)
                /\ conv.dest[Jump(na + 2) - 1] =
                     make_assignment(residual, C13_A.e)
                /\ Join(na + 2) = Len(conv.dest)
           ELSE /\ Len(conv.dest) = na
                /\ residual = if_exprt_typed(cond, C13_A.e, expr.ops[2],
                                             expr.typ)
        /\ phase = "done" => effects = Sem(expr, store0, env).fx

\* a run of f() ?: g() in which f() is true: f is called once, g is not
C13_Witness ==
  /\ C13_Case
  /\ phase = "done"
  /\ expr.ops[1] = F
  /\ expr.ops[2] = G
  /\ env["f"] = 1
  /\ effects = <<"f">>
  /\ CallCount(conv.dest) = 2

\* ------------------------------------------------------------------------
\* The conditional: its temporary and the order of its instructions
\* ------------------------------------------------------------------------

\* the expression lowered is a conditional a branch of which needs cleaning
IfCase ==
  /\ Lowered
  /\ expr.id = "if"
  /\ needs_cleaning(expr.ops[2]) \/ needs_cleaning(expr.ops[3])

\* the lowering of the condition alone, then of each branch alone, each into
\* a sequence of its own
IfCond == clean_expr(expr.ops[1], conv0(conv.lifetime), TRUE)
IfTrue ==
  clean_expr(expr.ops[2], [IfCond.s EXCEPT !.dest = <<>>], result_is_used)
IfFalse ==
  clean_expr(expr.ops[3], [IfTrue.s EXCEPT !.dest = <<>>], result_is_used)

\* the instructions of a range of dest
Fragment(range) ==
  [j \in 1..Cardinality(range) |->
     conv.dest[j + (CHOOSE m \in range : \A k \in range : m <= k) - 1]]

\* C15: a conditional a branch of which needs cleaning, lowered with
\* result_is_used = true, gets exactly one temporary of the type of the
\* conditional; the last instruction of the true fragment assigns the lowered
\* true branch to it, the last instruction of the false fragment assigns the
\* lowered false branch to it; the residual is the symbol of the temporary,
\* and after the join it holds the value of the branch selected.
C15_ConditionalTemporary ==
  (IfCase /\ result_is_used) =>
    LET n == Len(conv.tab)
    IN  /\ n = Len(IfFalse.s.tab) + 1
        /\ conv.tab[n].suffix = "if_expr"
        /\ conv.tab[n].typ = expr.typ
        /\ residual = tmp_symbol_expr("if_expr", n, expr.typ)
        /\ Cardinality({j \in 1..Len(conv.dest) :
                          conv.dest[j] = make_decl(residual)}) = 1
        /\ \E p \in Branches :
             /\ Join(p) = Len(conv.dest)
             /\ conv.dest[Jump(p) - 1] = make_assignment(residual, IfTrue.e)
             /\ conv.dest[Join(p) - 1] = make_assignment(residual, IfFalse.e)
        /\ phase = "done" =>
             store[Key(residual)] = Sem(expr, store0, env).v

\* a run of a ? f() : g() with a false and g() true: the temporary holds 1
C15_Witness ==
  /\ IfCase
  /\ result_is_used
  /\ phase = "done"
  /\ expr = if_exprt(A, F, G)
  /\ env["a"] = 0
  /\ env["f"] = 0
  /\ env["g"] = 1
  /\ store[Key(residual)] = 1

\* C16: in the sequence written for a conditional, every instruction that
\* comes from lowering the condition precedes the guarded branch, and every
\* instruction that comes from lowering a branch lies inside the fragment of
\* that branch, after the guarded branch and before the join: dest is the
\* lowering of the condition, the declaration of the temporary when the
\* result is used, the guarded branch, the true fragment (the lowering of
\* the true branch, then its assignment or expression statement), the jump,
\* the false fragment (likewise), the join.
C16_ConditionBeforeBranches ==
  IfCase =>
    LET nc == Len(IfCond.s.dest)
        p == IF result_is_used THEN nc + 2 ELSE nc + 1
        nt == Len(IfTrue.s.dest)
        nf == Len(IfFalse.s.dest)
    IN  /\ SubSeq(conv.dest, 1, nc) = IfCond.s.dest
        /\ result_is_used => conv.dest[nc + 1] = make_decl(residual)
        /\ p \in Branches
        /\ conv.dest[p].a = not_exprt(IfCond.e)
        /\ Join(p) = Len(conv.dest)
        /\ Cardinality(TrueFragment(p)) \in {nt, nt + 1}
        /\ Cardinality(FalseFragment(p)) \in {nf, nf + 1}
        /\ nt > 0 => SubSeq(Fragment(TrueFragment(p)), 1, nt) = IfTrue.s.dest
        /\ nf > 0 => SubSeq(Fragment(FalseFragment(p)), 1, nf) = IfFalse.s.dest
        /\ \A j \in TrueFragment(p) \cup FalseFragment(p) : p < j /\ j < Join(p)
        /\ phase = "done" =>
             /\ \A j \in 1..nc : j \in Executed =>
                  \A k \in 1..Len(path) : path[k] = p =>
                    \E i \in 1..(k - 1) : path[i] = j
             /\ effects = Sem(expr, store0, env).fx

\* a run of f() ? g() : a, discarded, with f() true: f is called before the
\* guarded branch, g inside the true fragment
C16_Witness ==
  /\ IfCase
  /\ ~result_is_used
  /\ phase = "done"
  /\ expr = if_exprt(F, G, A)
  /\ env["f"] = 1
  /\ effects = <<"f", "g">>
  /\ conv.dest[3].op = "GOTO"
  /\ conv.dest[4].op = "FUNCTION_CALL"

\* ------------------------------------------------------------------------
\* The usage context of the operands in the default case
\* ------------------------------------------------------------------------

\* the expression lowered is an operator handled by the default case
C18_Case ==
  /\ Lowered
  /\ needs_cleaning(expr)
  /\ expr.id \in {"+", "compound_literal"}

RECURSIVE LowerOperands(_, _, _, _)
\* the operands from operand i on, lowered one after the other, left to
\* right, each in the usage context given
LowerOperands(e, i, s, used) ==
  IF i > Len(e.ops) THEN ret(e, s)
  ELSE LET r == clean_expr(e.ops[i], s, used)
       IN  LowerOperands([e EXCEPT !.ops[i] = r.e], i + 1, r.s, used)

\* what the default case leaves when the operands are lowered in the usage
\* context given: the operator over the lowered operands, a compound literal
\* replaced by its operand
C18_Holds(used) ==
  LET r == LowerOperands(expr, 1, conv0(conv.lifetime), used)
  IN  /\ conv = r.s
      /\ residual = IF expr.id = "compound_literal" THEN r.e.ops[1] ELSE r.e

\* C18: for a node handled by the default case of clean_expr every operand
\* is lowered with the result_is_used that was passed for the node itself:
\* with result_is_used = false the operands are lowered as discarded.
C18_Original == C18_Case => C18_Holds(result_is_used)

\* C18, amended: for a node handled by the default case of clean_expr every
\* operand is lowered with the default usage context of the declaration, the
\* result being used, whatever result_is_used was passed for the node: the
\* value of every operand is kept in the residual operator, none is nil.
C18_OperandsLoweredAsUsed ==
  C18_Case =>
    /\ C18_Holds(TRUE)
    /\ \A q \in Subs(residual) : is_not_nil(q)

\* a + f() lowered as discarded: the value of the call is kept in a
\* temporary, which is the operand of the residual sum
C18_Witness ==
  /\ C18_Case
  /\ ~result_is_used
  /\ expr = plus_exprt(A, F)
  /\ residual = plus_exprt(A, tmp_symbol_expr("return_value", 1, "bool"))
  /\ conv.dest[2] =
       make_function_call(tmp_symbol_expr("return_value", 1, "bool"), F)

\* ------------------------------------------------------------------------
\* lhs = f(...)
\* ------------------------------------------------------------------------

\* the expression lowered is an assignment of a call
C19_Case ==
  /\ Lowered
  /\ expr.id = "side_effect"
  /\ expr.stmt = "assign"
  /\ Len(expr.ops) = 2
  /\ is_function_call(expr.ops[2])

\* the lowering of the left-hand side alone
C19_Lhs == clean_expr(expr.ops[1], conv0(conv.lifetime), TRUE)

\* the instructions, after those of the left-hand side, that make the call,
\* and those that write the lowered left-hand side
C19_Calls ==
  {j \in (Len(C19_Lhs.s.dest) + 1)..Len(conv.dest) :
     conv.dest[j].op = "FUNCTION_CALL" /\ conv.dest[j].b = expr.ops[2]}
C19_Writes ==
  {j \in 1..Len(conv.dest) :
     /\ conv.dest[j].op \in {"ASSIGN", "FUNCTION_CALL"}
     /\ conv.dest[j].a = skip_typecast(C19_Lhs.e)}

\* C19: lowering lhs = f(...) expands the call exactly once and writes
\* exactly one assignment to the lowered lhs, after the instructions of the
\* lowering of lhs; the residual is nil when the result is not used; when it
\* is used it is the temporary that holds the result of the call, cast to
\* the type of lhs where the types differ, if
\* assignment_lhs_needs_temporary(lowered lhs), and the lowered lhs
\* otherwise.
C19_AssignCall ==
  C19_Case =>
    LET nl == Len(C19_Lhs.s.dest)
        lhs == C19_Lhs.e
    IN  /\ SubSeq(conv.dest, 1, nl) = C19_Lhs.s.dest
        /\ Cardinality(C19_Calls) = 1
        /\ CallCount(conv.dest) = CallCount(C19_Lhs.s.dest) + 1
        /\ C19_Writes = {Len(conv.dest)}
        /\ Len(conv.dest) > nl
        /\ IF ~result_is_used THEN is_nil(residual)
           ELSE IF assignment_lhs_needs_temporary(lhs)
           THEN \E j \in C19_Calls :
                  /\ conv.dest[j].a.ident = "return_value"
                  /\ residual = conditional_cast(conv.dest[j].a, lhs.typ)
                  /\ conv.dest[Len(conv.dest)] =
                       make_assignment(lhs, residual)
           ELSE residual = lhs
        /\ phase = "done" =>
             /\ Len(effects) = CallCount(conv.dest)
             /\ effects[Len(effects)] = expr.ops[2].ident

\* x[f()] = g(), used: g is called once into a temporary; the temporary,
\* cast to the type of the element, is assigned and is the residual
C19_Witness ==
  /\ C19_Case
  /\ result_is_used
  /\ expr = side_effect_expr_assignt(index_exprt(X, F), G)
  /\ phase = "done"
  /\ effects = <<"f", "g">>
  /\ residual =
       typecast_exprt(tmp_symbol_expr("return_value", 2, "bool"), "int")

\* ------------------------------------------------------------------------
\* The address of a leaf
\* ------------------------------------------------------------------------

\* a symbol or a constant: a node without operands that is none of the
\* cases of clean_expr_address_of
Leaf(e) == e.id \in {"symbol", "constant"} /\ Len(e.ops) = 0

\* clean_expr_address_of was applied to a leaf: the expression lowered is
\* &(p, leaf) or &(leaf[p]) with p in need of cleaning
C20_Comma ==
  /\ expr.id = "address_of"
  /\ expr.ops[1].id = "comma"
  /\ Leaf(expr.ops[1].ops[2])
  /\ needs_cleaning(expr.ops[1].ops[1])
C20_Index ==
  /\ expr.id = "address_of"
  /\ expr.ops[1].id = "index"
  /\ Leaf(expr.ops[1].ops[1])
  /\ needs_cleaning(expr.ops[1].ops[2])
C20_Case == phase # "input" /\ (C20_Comma \/ C20_Index)

Literals == {n \in 1..Len(conv.tab) : conv.tab[n].suffix = "literal"}

\* the expression lowered has a compound literal and no address-of node
C21_Case ==
  /\ Lowered
  /\ \E q \in Reach(expr) : q.id = "compound_literal"
  /\ \A q \in Subs(expr) : q.id # "address_of"

\* the lowering of the operand of a compound literal that is the expression
C21_Operand == clean_expr(expr.ops[1], conv0(conv.lifetime), TRUE)

\* C21: a compound literal reached by clean_expr outside address-of is
\* replaced by its operand, after the operand was lowered: no temporary is
\* allocated for the literal, no declaration of one is written and no
\* scope-exit marker of one is registered; no compound literal is left in
\* the residual. When the literal is the whole expression, the residual is
\* the lowered operand and the instructions are those of the operand.
C21_ValueContextCompoundLiteral ==
  C21_Case =>
    /\ Literals = {}
    /\ \A j \in 1..Len(conv.dest) : conv.dest[j].a.ident # "literal"
    /\ \A j \in 1..Len(conv.scope) : conv.scope[j].a.ident # "literal"
    /\ \A q \in Reach(residual) : q.id # "compound_literal"
    /\ expr.id = "compound_literal" =>
         /\ residual = C21_Operand.e
         /\ conv = C21_Operand.s

\* the compound literal of f(), in a block: one temporary, that of the
\* call, which is the residual
C21_Witness ==
  /\ C21_Case
  /\ expr = compound_literal_exprt(F)
  /\ conv.lifetime = "AUTOMATIC_LOCAL"
  /\ Len(conv.tab) = 1
  /\ residual = tmp_symbol_expr("return_value", 1, "bool")
  /\ Len(conv.dest) = 2

\* ------------------------------------------------------------------------
\* Termination: every recursive call is on a smaller expression
\* ------------------------------------------------------------------------

RECURSIVE Weight(_)
RECURSIVE WeightSum(_, _)
\* a measure of expressions: the size, with an and/or/implies node as heavy
\* as the conditionals it is rewritten into and a ?: b as heavy as the
\* conditional built from a, a and b
WeightSum(ops, i) ==
  IF i > Len(ops) THEN 0 ELSE Weight(ops[i]) + WeightSum(ops, i + 1)
Weight(e) ==
  IF e.id \in {"and", "or", "implies"}
  THEN WeightSum(e.ops, 1) + Len(e.ops) + Len(e.ops) + 2
  ELSE IF e.id = "side_effect" /\ e.stmt = "gcc_conditional_expression"
            /\ Len(e.ops) = 2
  THEN Weight(e.ops[1]) + Weight(e.ops[1]) + Weight(e.ops[2]) + 3
  ELSE WeightSum(e.ops, 1) + 1

\* a call of clean_expr (addr false) or of clean_expr_address_of (addr true)
Call(addr, e) == [addr |-> addr, e |-> e]
ValueCalls(ops) == {Call(FALSE, ops[i]) : i \in 1..Len(ops)}

\* the conditional that remove_gcc_conditional_expression builds from the
\* lowered a and lowers again
ElvisConditional(e) ==
  LET a == clean_expr(e.ops[1], conv0("AUTOMATIC_LOCAL"), TRUE).e
  IN  if_exprt_typed(conditional_cast(a, "bool"), a, e.ops[2], e.typ)

\* the calls of clean_expr and of clean_expr_address_of that the body of
\* clean_expr makes for the node e
ValueCallees(e) ==
  IF ~needs_cleaning(e) THEN {}
  ELSE IF e.id \in {"and", "or", "implies"}
  THEN (IF rewrite_boolean(e).fatal # "" THEN {}
        ELSE {Call(FALSE, rewrite_boolean(e).e)})
  ELSE IF e.id = "side_effect" /\ e.stmt = "gcc_conditional_expression"
  THEN (IF Len(e.ops) # 2 THEN {}
        ELSE {Call(FALSE, e.ops[1]), Call(FALSE, ElvisConditional(e))})
  ELSE IF e.id = "side_effect" /\ e.stmt = "statement_expression" THEN {}
  ELSE IF e.id = "side_effect" /\ e.stmt = "assign" /\ Len(e.ops) = 2
          /\ is_function_call(e.ops[2])
  THEN {Call(FALSE, e.ops[1])}
  ELSE IF e.id = "address_of" THEN {Call(TRUE, e.ops[1])}
  ELSE ValueCalls(e.ops)

\* those that the body of clean_expr_address_of makes for the node e
AddressCallees(e) ==
  IF e.id = "compound_literal" THEN ValueCalls(e.ops)
  ELSE IF e.id = "string_constant" THEN {}
  ELSE IF e.id = "index"
  THEN {Call(TRUE, e.ops[1]), Call(FALSE, e.ops[2])}
  ELSE IF e.id = "dereference" THEN {Call(FALSE, e.ops[1])}
  ELSE IF e.id = "comma"
  THEN {Call(i = Len(e.ops), e.ops[i]) : i \in 1..Len(e.ops)}
  ELSE IF e.id = "side_effect" THEN {}
  ELSE {Call(TRUE, e.ops[i]) : i \in 1..Len(e.ops)}

Callees(c) == IF c.addr THEN AddressCallees(c.e) ELSE ValueCallees(c.e)

\* the and/or/implies nodes of the expression that rewrite_boolean accepts
BooleanNodes ==
  {q \in Subs(expr) : /\ q.id \in {"and", "or", "implies"}
                      /\ Len(q.ops) > 0
                      /\ rewrite_boolean(q).fatal = ""}
ElvisNodes ==
  {q \in Subs(expr) : /\ q.id = "side_effect"
                      /\ q.stmt = "gcc_conditional_expression"
                      /\ Len(q.ops) = 2}

\* the expressions the lowering of expr is called on: the subexpressions,
\* the rewritten and/or/implies and a ?: b nodes, and their subexpressions
Nodes ==
  Subs(expr)
    \cup UNION {Subs(rewrite_boolean(q).e) : q \in BooleanNodes}
    \cup UNION {Subs(ElvisConditional(q)) : q \in ElvisNodes}

\* C22: clean_expr, clean_expr_address_of and
\* remove_gcc_conditional_expression terminate: the node that the
\* re-dispatch after rewrite_boolean, and after the rewrite of a ?: b, is
\* called on is a conditional that weighs less than the node rewritten, and
\* every call made by the body of clean_expr or of clean_expr_address_of for
\* a node is on an expression that weighs less than the node; the lowering
\* of the expression has returned or ended in a fatal violation after the
\* one step that makes it.
C22_Terminates ==
  /\ \A q \in BooleanNodes :
       /\ rewrite_boolean(q).e.id = "if"
       /\ Weight(rewrite_boolean(q).e) < Weight(q)
  /\ \A q \in ElvisNodes :
       /\ ElvisConditional(q).id = "if"
       /\ Weight(ElvisConditional(q)) < Weight(q)
  /\ \A q \in Nodes : \A addr \in BOOLEAN :
       \A d \in Callees(Call(addr, q)) : Weight(d.e) < Weight(q)
  /\ phase # "input" =>
       \/ phase = "aborted" /\ conv.fatal # ""
       \/ Lowered /\ conv.fatal = ""

\* the lowering of (a && f()) ?: (f() || g()) has returned: both re-dispatches
\* were made
C22_Witness ==
  /\ phase = "lowered"
  /\ expr = gcc_conditional_expression(and_exprt(<<A, F>>), or_exprt(<<F, G>>))
  /\ BooleanNodes = {and_exprt(<<A, F>>), or_exprt(<<F, G>>)}
  /\ ElvisNodes = {expr}
  /\ CallCount(conv.dest) = 3

\* ------------------------------------------------------------------------
\* Lowering twice
\* ------------------------------------------------------------------------

\* the lowering of the expression, as used, has returned
C23_Case == Lowered /\ result_is_used

\* C23: after clean_expr(expr, dest, mode, true) has returned normally the
\* residual needs no cleaning, and a second clean_expr on the residual, used
\* or discarded, on the same dest writes no instruction, makes no temporary
\* and leaves the residual as it is.
C23_Idempotent ==
  C23_Case =>
    /\ ~needs_cleaning(residual)
    /\ \A q \in Reach(residual) : q.id \notin DirtyKinds
    /\ \A used \in BOOLEAN : clean_expr(residual, conv, used) = ret(residual, conv)

\* &((f(), a) ? *f() : *g()) lowered: instructions were written, and
\* the residual, an address-of over a conditional, needs no cleaning
C23_Witness ==
  /\ C23_Case
  /\ expr = address_of_exprt(if_exprt(comma_exprt(<<F, A>>),
                                      dereference_exprt(F),
                                      dereference_exprt(G)))
  /\ residual.id = "address_of"
  /\ residual.ops[1].id = "if"
  /\ Len(conv.dest) > 0
  /\ ~needs_cleaning(residual)

\* ------------------------------------------------------------------------
\* The address of a conditional
\* ------------------------------------------------------------------------

\* a run of the instructions written for &(c ? t : f), a branch of which
\* has a side effect
C24_Case ==
  /\ phase = "done"
  /\ expr.id = "address_of"
  /\ expr.ops[1].id = "if"
  /\ needs_cleaning(expr.ops[1].ops[2]) \/ needs_cleaning(expr.ops[1].ops[3])

\* C24: the instructions written by clean_expr_address_of for the address
\* of a conditional perform the side effects of the true branch only in the
\* runs in which the condition holds and those of the false branch only in
\* the runs in which it does not: the calls of a run are those of the
\* evaluation of the conditional, condition first, then the branch selected.
C24_BranchesGuardedUnderAddressOf ==
  C24_Case => effects = Sem(expr, store0, env).fx

\* ------------------------------------------------------------------------
\* dest is only appended to
\* ------------------------------------------------------------------------

IsPrefix(a, b) == Len(a) <= Len(b) /\ SubSeq(b, 1, Len(a)) = a

\* the lowering of the expression has returned, and left instructions
C25_Case == phase = "lowered" /\ Len(conv.dest) > 0

\* C25: a further call of clean_expr, of clean_expr_address_of or of
\* make_compound_literal on the dest that the lowering of the expression
\* left, for the expression or any of its subexpressions, in either usage
\* context, leaves the instructions that dest held as a prefix of dest,
\* unchanged and in the same order: the call only appends; so does every
\* call made within the lowering of the expression, on what the lowering of
\* the condition of a conditional, of the operand of a compound literal
\* under address-of and of the left-hand side of an assignment left.
C25_AppendOnly ==
  C25_Case =>
    /\ \A q \in Subs(expr) :
         /\ \A used \in BOOLEAN :
              IsPrefix(conv.dest, clean_expr(q, conv, used).s.dest)
         /\ IsPrefix(conv.dest, clean_expr_address_of(q, conv).s.dest)
         /\ ~needs_cleaning(q) =>
              IsPrefix(conv.dest, make_compound_literal(q, conv).s.dest)
    /\ expr.id = "if" => IsPrefix(IfCond.s.dest, conv.dest)
    /\ C11_Case => IsPrefix(C11_Operand.s.dest, conv.dest)
    /\ C19_Case => IsPrefix(C19_Lhs.s.dest, conv.dest)

\* after a ? f() : g() was lowered, lowering it again on the same dest
\* appends a second branch construct after the first
C25_Witness ==
  /\ C25_Case
  /\ result_is_used
  /\ expr = if_exprt(A, F, G)
  /\ Len(clean_expr(expr, conv, TRUE).s.dest) = Len(conv.dest) + Len(conv.dest)
  /\ IsPrefix(conv.dest, clean_expr(expr, conv, TRUE).s.dest)

====
